---------------------------- MODULE Spec2Model ----------------------------
(***************************************************************************)
(* A model of wav_file_util: the 44-byte WAV header codec and validation   *)
(* (WavFileMetaData, WavFile._parse_meta_data, WavFile._validate_meta_data)*)
(* the per-sample codec, the block-wise transformation and the wave form   *)
(* synthesis of src/wav_file_util/wav_file.py.                             *)
(*                                                                         *)
(* Bytes are integers 0..255, byte strings are sequences of bytes, files   *)
(* are byte strings.  Integers of the model are TLC's (below 2^31), so the *)
(* 32-bit values the model draws stay below 2^31.                          *)
(***************************************************************************)
EXTENDS Integers, Sequences, FiniteSets, TLC

(***************************************************************************)
(* Byte strings and Python's slice and struct primitives                   *)
(***************************************************************************)

Min(a, b) == IF a <= b THEN a ELSE b

RECURSIVE Pow(_, _)
Pow(b, e) == IF e = 0 THEN 1 ELSE b * Pow(b, e - 1)

\* bytearray(n): n zero bytes; a negative n raises ValueError (modelled by
\* the callers, which test n before they build the string)
ZeroBytes(n) == [i \in 1..n |-> 0]

\* b[lo:hi] of Python, 0-based, both ends clipped to the length
Slice(b, lo, hi) ==
    LET l == Min(lo, Len(b))
        h == Min(hi, Len(b))
    IN  IF h <= l THEN << >> ELSE SubSeq(b, l + 1, h)

\* b[lo:hi] = x of Python on a bytearray: the slice is replaced by x, whose
\* length may differ from the slice's, so that the array shrinks or grows
SliceAssign(b, lo, hi, x) ==
    LET l == Min(lo, Len(b))
        h == IF Min(hi, Len(b)) < l THEN l ELSE Min(hi, Len(b))
    IN  SubSeq(b, 1, l) \o x \o SubSeq(b, h + 1, Len(b))

\* struct.pack('<I' / '<H', v): n bytes, least significant first
PackLE(v, n) == [i \in 1..n |-> (v \div Pow(256, i - 1)) % 256]

\* struct.pack('>I', v): n bytes, most significant first
PackBE(v, n) == [i \in 1..n |-> (v \div Pow(256, n - i)) % 256]

RECURSIVE UnpackLE(_, _)
\* struct.unpack_from('<I' / '<H', b)[0]: the first n bytes of b, least
\* significant first (b holds at least n bytes)
UnpackLE(b, n) == IF n = 0 THEN 0 ELSE b[1] + 256 * UnpackLE(Tail(b), n - 1)

RECURSIVE UnpackBE(_, _)
\* struct.unpack_from('>I', b)[0]: the first n bytes of b, most significant
\* first
UnpackBE(b, n) ==
    IF n = 0 THEN 0 ELSE b[1] * Pow(256, n - 1) + UnpackBE(Tail(b), n - 1)

(***************************************************************************)
(* WavFileMetaData: constants                                              *)
(***************************************************************************)

NUM_BYTES_BEFORE_DATA_STARTS == 44

SUPER_CHUNK_ID_OFFSET == 0
SUPER_CHUNK_SIZE_OFFSET == 4
SUPER_CHUNK_FORMAT_OFFSET == 8
FORMAT_CHUNK_ID_OFFSET == 12
FORMAT_CHUNK_SIZE_OFFSET == 16
FORMAT_CHUNK_AUDIO_FORMAT_OFFSET == 20
FORMAT_CHUNK_NUM_CHANNELS_OFFSET == 22
FORMAT_CHUNK_SAMPLE_RATE_OFFSET == 24
FORMAT_CHUNK_BYTE_RATE_OFFSET == 28
FORMAT_CHUNK_BLOCK_ALIGN_OFFSET == 32
FORMAT_CHUNK_BITS_PER_SAMPLE_OFFSET == 34
DATA_CHUNK_ID_OFFSET == 36
DATA_CHUNK_SIZE_OFFSET == 40

\* "RIFF", "WAVE", "fmt " and "data" in ascii, big-endian
SUPER_CHUNK_ID_EXPECTED == 1380533830
SUPER_CHUNK_FORMAT_EXPECTED == 1463899717
FORMAT_CHUNK_ID_EXPECTED == 1718449184
FORMAT_CHUNK_SIZE_EXPECTED == 16
FORMAT_CHUNK_AUDIO_FORMAT_EXPECTED == 1
FORMAT_CHUNK_NUM_CHANNELS_EXPECTED == 2
DATA_CHUNK_ID_EXPECTED == 1684108385

AUDIO_DURATION_IN_SECONDS_DEFAULT == 5
\* 44100 in the source; scaled down so that a synthesized payload is a few
\* blocks long
FORMAT_CHUNK_SAMPLE_RATE_DEFAULT == 5
NUM_SAMPLES_DEFAULT ==
    AUDIO_DURATION_IN_SECONDS_DEFAULT * FORMAT_CHUNK_SAMPLE_RATE_DEFAULT
BYTES_PER_SAMPLE_DEFAULT == 3

(***************************************************************************)
(* WavFileMetaData: the record, its default and its encoding               *)
(***************************************************************************)

\* WavFileMetaData.__init__
WavFileMetaData ==
    [super_chunk_id |-> 0, super_chunk_size |-> 0, super_chunk_format |-> 0,
     format_chunk_id |-> 0, format_chunk_size |-> 0,
     format_chunk_audio_format |-> 0, format_chunk_num_channels |-> 0,
     format_chunk_sample_rate |-> 0, format_chunk_byte_rate |-> 0,
     format_chunk_block_align |-> 0, format_chunk_bits_per_sample |-> 0,
     data_chunk_id |-> 0, data_chunk_size |-> 0]

\* WavFileMetaData.make_default
make_default ==
    LET bytes_of_audio_data ==
            NUM_SAMPLES_DEFAULT * FORMAT_CHUNK_NUM_CHANNELS_EXPECTED
                * BYTES_PER_SAMPLE_DEFAULT
    IN  [super_chunk_id |-> SUPER_CHUNK_ID_EXPECTED,
         super_chunk_size |->
             NUM_BYTES_BEFORE_DATA_STARTS - 8 + bytes_of_audio_data,
         super_chunk_format |-> SUPER_CHUNK_FORMAT_EXPECTED,
         format_chunk_id |-> FORMAT_CHUNK_ID_EXPECTED,
         format_chunk_size |-> FORMAT_CHUNK_SIZE_EXPECTED,
         format_chunk_audio_format |-> FORMAT_CHUNK_AUDIO_FORMAT_EXPECTED,
         format_chunk_num_channels |-> FORMAT_CHUNK_NUM_CHANNELS_EXPECTED,
         format_chunk_sample_rate |-> FORMAT_CHUNK_SAMPLE_RATE_DEFAULT,
         format_chunk_byte_rate |->
             FORMAT_CHUNK_SAMPLE_RATE_DEFAULT * BYTES_PER_SAMPLE_DEFAULT
                 * FORMAT_CHUNK_NUM_CHANNELS_EXPECTED,
         format_chunk_block_align |->
             BYTES_PER_SAMPLE_DEFAULT * FORMAT_CHUNK_NUM_CHANNELS_EXPECTED,
         format_chunk_bits_per_sample |-> BYTES_PER_SAMPLE_DEFAULT * 8,
         data_chunk_id |-> DATA_CHUNK_ID_EXPECTED,
         data_chunk_size |-> bytes_of_audio_data]

\* A slip get_bytes could make: the super chunk size packed with '>I'
get_bytes_big_endian_size(m) ==
       PackBE(m.super_chunk_id, 4)
    \o PackBE(m.super_chunk_size, 4)
    \o PackBE(m.super_chunk_format, 4)
    \o PackBE(m.format_chunk_id, 4)
    \o PackLE(m.format_chunk_size, 4)
    \o PackLE(m.format_chunk_audio_format, 2)
    \o PackLE(m.format_chunk_num_channels, 2)
    \o PackLE(m.format_chunk_sample_rate, 4)
    \o PackLE(m.format_chunk_byte_rate, 4)
    \o PackLE(m.format_chunk_block_align, 2)
    \o PackLE(m.format_chunk_bits_per_sample, 2)
    \o PackBE(m.data_chunk_id, 4)
    \o PackLE(m.data_chunk_size, 4)

\* WavFileMetaData.get_bytes
get_bytes(m) ==
       PackBE(m.super_chunk_id, 4)
    \o PackLE(m.super_chunk_size, 4)
    \o PackBE(m.super_chunk_format, 4)
    \o PackBE(m.format_chunk_id, 4)
    \o PackLE(m.format_chunk_size, 4)
    \o PackLE(m.format_chunk_audio_format, 2)
    \o PackLE(m.format_chunk_num_channels, 2)
    \o PackLE(m.format_chunk_sample_rate, 4)
    \o PackLE(m.format_chunk_byte_rate, 4)
    \o PackLE(m.format_chunk_block_align, 2)
    \o PackLE(m.format_chunk_bits_per_sample, 2)
    \o PackBE(m.data_chunk_id, 4)
    \o PackLE(m.data_chunk_size, 4)

\* WavFile._parse_meta_data.  Each field is unpacked from a slice that
\* starts at the field's offset; the slices of super_chunk_size and
\* super_chunk_format end 4 bytes past the NEXT field's offset, as in the
\* source, and unpack_from reads their first 4 bytes.
_parse_meta_data(meta_data_bytes) ==
    [super_chunk_id |->
        UnpackBE(Slice(meta_data_bytes, SUPER_CHUNK_ID_OFFSET,
                       SUPER_CHUNK_ID_OFFSET + 4), 4),
     super_chunk_size |->
        UnpackLE(Slice(meta_data_bytes, SUPER_CHUNK_SIZE_OFFSET,
                       SUPER_CHUNK_FORMAT_OFFSET + 4), 4),
     super_chunk_format |->
        UnpackBE(Slice(meta_data_bytes, SUPER_CHUNK_FORMAT_OFFSET,
                       FORMAT_CHUNK_ID_OFFSET + 4), 4),
     format_chunk_id |->
        UnpackBE(Slice(meta_data_bytes, FORMAT_CHUNK_ID_OFFSET,
                       FORMAT_CHUNK_ID_OFFSET + 4), 4),
     format_chunk_size |->
        UnpackLE(Slice(meta_data_bytes, FORMAT_CHUNK_SIZE_OFFSET,
                       FORMAT_CHUNK_SIZE_OFFSET + 4), 4),
     format_chunk_audio_format |->
        UnpackLE(Slice(meta_data_bytes, FORMAT_CHUNK_AUDIO_FORMAT_OFFSET,
                       FORMAT_CHUNK_AUDIO_FORMAT_OFFSET + 2), 2),
     format_chunk_num_channels |->
        UnpackLE(Slice(meta_data_bytes, FORMAT_CHUNK_NUM_CHANNELS_OFFSET,
                       FORMAT_CHUNK_NUM_CHANNELS_OFFSET + 2), 2),
     format_chunk_sample_rate |->
        UnpackLE(Slice(meta_data_bytes, FORMAT_CHUNK_SAMPLE_RATE_OFFSET,
                       FORMAT_CHUNK_SAMPLE_RATE_OFFSET + 4), 4),
     format_chunk_byte_rate |->
        UnpackLE(Slice(meta_data_bytes, FORMAT_CHUNK_BYTE_RATE_OFFSET,
                       FORMAT_CHUNK_BYTE_RATE_OFFSET + 4), 4),
     format_chunk_block_align |->
        UnpackLE(Slice(meta_data_bytes, FORMAT_CHUNK_BLOCK_ALIGN_OFFSET,
                       FORMAT_CHUNK_BLOCK_ALIGN_OFFSET + 2), 2),
     format_chunk_bits_per_sample |->
        UnpackLE(Slice(meta_data_bytes, FORMAT_CHUNK_BITS_PER_SAMPLE_OFFSET,
                       FORMAT_CHUNK_BITS_PER_SAMPLE_OFFSET + 2), 2),
     data_chunk_id |->
        UnpackBE(Slice(meta_data_bytes, DATA_CHUNK_ID_OFFSET,
                       DATA_CHUNK_ID_OFFSET + 4), 4),
     data_chunk_size |->
        UnpackLE(Slice(meta_data_bytes, DATA_CHUNK_SIZE_OFFSET,
                       DATA_CHUNK_SIZE_OFFSET + 4), 4)]


(***************************************************************************)
(* WavFile._validate_meta_data                                             *)
(***************************************************************************)

\* One error of the list: "<field> | actual = <actual> expected = <expected>"
FieldError(field, actual, expected) ==
    [field |-> field, actual |-> actual, expected |-> expected]

\* A slip the checks could make: stop at the first error
CheckFirstOnly(acc, violated, err) ==
    IF violated /\ acc.success
    THEN [success |-> FALSE, errors |-> Append(acc.errors, err)]
    ELSE acc

\* One "if <violated>: success = False; errors.append(<err>)" of
\* _validate_meta_data
Check(acc, violated, err) ==
    IF violated
    THEN [success |-> FALSE, errors |-> Append(acc.errors, err)]
    ELSE acc

\* The eight checks of _validate_meta_data, in the order of the source
ValidateChecks(m) ==
    LET c0 == [success |-> TRUE, errors |-> << >>]
        c1 == Check(c0, m.super_chunk_id # SUPER_CHUNK_ID_EXPECTED,
                    FieldError("super_chunk_id", m.super_chunk_id,
                               SUPER_CHUNK_ID_EXPECTED))
        c2 == Check(c1, m.super_chunk_format # SUPER_CHUNK_FORMAT_EXPECTED,
                    FieldError("super_chunk_format", m.super_chunk_format,
                               SUPER_CHUNK_FORMAT_EXPECTED))
        c3 == Check(c2, m.format_chunk_id # FORMAT_CHUNK_ID_EXPECTED,
                    FieldError("format_chunk_id", m.format_chunk_id,
                               FORMAT_CHUNK_ID_EXPECTED))
        c4 == Check(c3, m.format_chunk_size # FORMAT_CHUNK_SIZE_EXPECTED,
                    FieldError("format_chunk_size", m.format_chunk_size,
                               FORMAT_CHUNK_SIZE_EXPECTED))
        c5 == Check(c4, m.format_chunk_audio_format
                            # FORMAT_CHUNK_AUDIO_FORMAT_EXPECTED,
                    FieldError("format_chunk_audio_format",
                               m.format_chunk_audio_format,
                               FORMAT_CHUNK_AUDIO_FORMAT_EXPECTED))
        c6 == Check(c5, m.format_chunk_num_channels
                            # FORMAT_CHUNK_NUM_CHANNELS_EXPECTED,
                    FieldError("format_chunk_num_channels",
                               m.format_chunk_num_channels,
                               FORMAT_CHUNK_NUM_CHANNELS_EXPECTED))
        c7 == Check(c6, m.data_chunk_id # DATA_CHUNK_ID_EXPECTED,
                    FieldError("data_chunk_id", m.data_chunk_id,
                               DATA_CHUNK_ID_EXPECTED))
        c8 == Check(c7, m.format_chunk_bits_per_sample % 8 # 0,
                    FieldError("format_chunk_bits_per_sample",
                               "Not divisble by 8", "divisible by 8"))
    IN  c8

\* What the header table's expected-value column would add to the checks:
\* byte_rate and block_align against the values derived from the other fields
_validate_meta_data_with_rates(m) ==
    LET bytes_per_sample == m.format_chunk_bits_per_sample \div 8
        c8 == ValidateChecks(m)
        c9 == Check(c8, m.format_chunk_byte_rate
                            # m.format_chunk_sample_rate
                                * m.format_chunk_num_channels
                                * bytes_per_sample,
                    FieldError("format_chunk_byte_rate",
                               m.format_chunk_byte_rate,
                               m.format_chunk_sample_rate
                                   * m.format_chunk_num_channels
                                   * bytes_per_sample))
        c10 == Check(c9, m.format_chunk_block_align
                             # m.format_chunk_num_channels * bytes_per_sample,
                     FieldError("format_chunk_block_align",
                                m.format_chunk_block_align,
                                m.format_chunk_num_channels
                                    * bytes_per_sample))
    IN  c10

\* WavFile._validate_meta_data: (success, errors); the source joins the
\* errors into one string, and returns None for it when there are none
_validate_meta_data(m) == ValidateChecks(m)

(***************************************************************************)
(* The per-sample codec                                                    *)
(***************************************************************************)

\* WavFile._get_per_sample_struct_format_str_and_padding, on
\* bytes_per_sample = format_chunk_bits_per_sample // 8.  The three ifs run
\* one after the other: the third (<= 4) overwrites what the first two set,
\* so that every width up to 4 gets '<I' and 4 - bytes_per_sample bytes of
\* padding (none at width 4).  Above 4 the format is a bytearray, and above
\* 8 bytearray(8 - bytes_per_sample) raises ValueError (negative count).
_get_per_sample_struct_format_str_and_padding(bytes_per_sample) ==
    LET unset == [fmt |-> "unset", padding |-> << >>, raised |-> "none"]
        s1 == IF bytes_per_sample = 1
              THEN [fmt |-> "<c", padding |-> ZeroBytes(0), raised |-> "none"]
              ELSE unset
        s2 == IF bytes_per_sample = 2
              THEN [fmt |-> "<H", padding |-> ZeroBytes(0), raised |-> "none"]
              ELSE s1
        s3 == IF bytes_per_sample <= 4
              THEN [fmt |-> "<I", padding |-> ZeroBytes(4 - bytes_per_sample),
                    raised |-> "none"]
              ELSE IF 8 - bytes_per_sample < 0
                   THEN [s2 EXCEPT !.raised = "ValueError"]
                   ELSE [fmt |-> "bytearray",
                         padding |-> ZeroBytes(8 - bytes_per_sample),
                         raised |-> "none"]
    IN  s3

\* b[:-k] of Python with k = len(padding): the last k bytes dropped when
\* k > 0; with k = 0 the slice is b[:-0] = b[:0], the empty string
DropPadding(b, k) ==
    IF k = 0 THEN << >> ELSE Slice(b, 0, IF Len(b) - k < 0 THEN 0 ELSE Len(b) - k)

\* A slip the encoder could make: a value that does not fit the sample's
\* width rejected (as struct.pack does for a format of that width) instead
\* of cut down to it
PackSampleRangeChecked(codec, sample_value) ==
    IF codec.fmt = "<I"
    THEN IF sample_value < 0
              \/ sample_value >= Pow(256, 4 - Len(codec.padding))
         THEN [ok |-> FALSE, bytes |-> << >>, raised |-> "struct.error"]
         ELSE [ok |-> TRUE,
               bytes |-> DropPadding(PackLE(sample_value, 4),
                                     Len(codec.padding)),
               raised |-> "none"]
    ELSE [ok |-> FALSE, bytes |-> << >>, raised |-> "TypeError"]

\* struct.pack(fmt, sample_value)[:-len(padding)]: '<I' takes
\* 0 <= sample_value < 2^32 (the model's integers are all below 2^31) and
\* raises struct.error otherwise; a bytearray is no format (TypeError)
PackSample(codec, sample_value) ==
    IF codec.fmt = "<I"
    THEN IF sample_value < 0
         THEN [ok |-> FALSE, bytes |-> << >>, raised |-> "struct.error"]
         ELSE [ok |-> TRUE,
               bytes |-> DropPadding(PackLE(sample_value, 4),
                                     Len(codec.padding)),
               raised |-> "none"]
    ELSE [ok |-> FALSE, bytes |-> << >>, raised |-> "TypeError"]

\* struct.unpack_from(fmt, slot + padding)[0]: '<I' needs a buffer of at
\* least 4 bytes and raises struct.error on a shorter one
UnpackSample(codec, slot) ==
    LET buffer == slot \o codec.padding
    IN  IF codec.fmt = "<I"
        THEN IF Len(buffer) < 4
             THEN [ok |-> FALSE, value |-> 0, raised |-> "struct.error"]
             ELSE [ok |-> TRUE, value |-> UnpackLE(buffer, 4),
                   raised |-> "none"]
        ELSE [ok |-> FALSE, value |-> 0, raised |-> "TypeError"]

(***************************************************************************)
(* The block-wise transformation                                           *)
(***************************************************************************)

\* How many audio samples a block holds: 1000 in the source, scaled down so
\* that a payload of a few dozen bytes spans several blocks
SAMPLES_PER_BLOCK == 2

\* What a caller's "add_above_range" adds to every sample: 0x01010101, so
\* that the result is 2^24 or more and every byte of the sample changes
AboveRange == Pow(256, 3) + Pow(256, 2) + 256 + 1

\* remove_left_channel and remove_right_channel of __main__.py, a caller's
\* function whose result does not fit a sample of 1 to 3 bytes (trans_func
\* is any callable), and trans_func = None (the sample value is left as it
\* is)
ApplyTransFunc(trans, channel_index, sample_value) ==
    CASE trans = "remove_left_channel" ->
             IF channel_index = 1 THEN 0 ELSE sample_value
      [] trans = "remove_right_channel" ->
             IF channel_index = 0 THEN 0 ELSE sample_value
      [] trans = "add_above_range" -> sample_value + AboveRange
      [] OTHER -> sample_value

\* WavFile._get_read_block_size
_get_read_block_size(m) ==
    (SAMPLES_PER_BLOCK * m.format_chunk_num_channels
        * m.format_chunk_bits_per_sample) \div 8

\* One pass of "for sample_offset in range(0, len(data), bytes_per_sample)"
\* of create_new_wav_file_with_transformation: the slot at sample_offset of
\* the (possibly already shrunk) bytearray is decoded, the channel index is
\* incremented, trans_func is applied and the result is assigned to the
\* slot.  st = [data, channel_index, calls, raised].
SampleStep(st, sample_offset, bytes_per_sample, num_channels, codec, trans) ==
    LET slot == Slice(st.data, sample_offset, sample_offset + bytes_per_sample)
        u == UnpackSample(codec, slot)
        channel_index == (st.channel_index + 1) % num_channels
        called == trans # "None"
        sample_value == ApplyTransFunc(trans, channel_index, u.value)
        p == PackSample(codec, sample_value)
    IN  IF ~u.ok THEN [st EXCEPT !.raised = u.raised]
        ELSE IF num_channels = 0
        THEN [st EXCEPT !.raised = "ZeroDivisionError"]
        ELSE IF ~p.ok
        THEN [st EXCEPT !.channel_index = channel_index,
                        !.calls = IF called
                                  THEN Append(@, <<channel_index, u.value>>)
                                  ELSE @,
                        !.raised = p.raised]
        ELSE [data |-> SliceAssign(st.data, sample_offset,
                                   sample_offset + bytes_per_sample, p.bytes),
              channel_index |-> channel_index,
              calls |-> IF called
                        THEN Append(st.calls, <<channel_index, u.value>>)
                        ELSE st.calls,
              raised |-> "none"]

RECURSIVE ForSamples(_, _, _, _, _, _, _)
\* The for loop from sample_offset on; stop = len(data) when the range was
\* built, which a shrinking bytearray does not change
ForSamples(st, sample_offset, stop, bytes_per_sample, num_channels, codec, trans) ==
    IF sample_offset >= stop \/ st.raised # "none" THEN st
    ELSE ForSamples(SampleStep(st, sample_offset, bytes_per_sample,
                               num_channels, codec, trans),
                    sample_offset + bytes_per_sample, stop, bytes_per_sample,
                    num_channels, codec, trans)

\* Lines 139-146: channel_index = 0, then the for loop over the block;
\* range() with a step of 0 raises ValueError
ProcessBlock(data, bytes_per_sample, num_channels, codec, trans) ==
    LET st0 == [data |-> data, channel_index |-> 0, calls |-> << >>,
                raised |-> "none"]
    IN  IF bytes_per_sample = 0 THEN [st0 EXCEPT !.raised = "ValueError"]
        ELSE ForSamples(st0, 0, Len(data), bytes_per_sample, num_channels,
                        codec, trans)

\* A slip the loop could make: the end test before the write, so that the
\* short last block is dropped
TransformLoopBodyBreakFirst(rest, bytes_per_block, bytes_per_sample, num_channels, codec, trans) ==
    LET data == Slice(rest, 0, bytes_per_block)
        r == ProcessBlock(data, bytes_per_sample, num_channels, codec, trans)
    IN  [nread |-> Len(data),
         written |-> IF Len(r.data) < bytes_per_block THEN << >> ELSE r.data,
         calls |-> r.calls,
         raised |-> r.raised,
         brk |-> Len(r.data) < bytes_per_block]

\* Another: the blocks gathered in memory instead of written as they are
\* produced
TransformLoopBodyBuffered(rest, bytes_per_block, bytes_per_sample, num_channels, codec, trans) ==
    LET data == Slice(rest, 0, bytes_per_block)
        r == ProcessBlock(data, bytes_per_sample, num_channels, codec, trans)
    IN  [nread |-> Len(data),
         written |-> << >>,
         calls |-> r.calls,
         raised |-> r.raised,
         brk |-> Len(r.data) < bytes_per_block]

\* A third: the loop left only on an empty read
TransformLoopBodyBreakOnEmpty(rest, bytes_per_block, bytes_per_sample, num_channels, codec, trans) ==
    LET data == Slice(rest, 0, bytes_per_block)
        r == ProcessBlock(data, bytes_per_sample, num_channels, codec, trans)
    IN  [nread |-> Len(data),
         written |-> IF r.raised = "none" THEN r.data ELSE << >>,
         calls |-> r.calls,
         raised |-> r.raised,
         brk |-> Len(r.data) = 0]

\* One iteration of the while loop (lines 138-149) on rest, the bytes of the
\* source from the read position on: read(bytes_per_block), the for loop,
\* write(bytes(data)), and the end test on the length of data as the for
\* loop left it.  Nothing is written when the for loop raises.
TransformLoopBody(rest, bytes_per_block, bytes_per_sample, num_channels, codec, trans) ==
    LET data == Slice(rest, 0, bytes_per_block)
        r == ProcessBlock(data, bytes_per_sample, num_channels, codec, trans)
    IN  [nread |-> Len(data),
         written |-> IF r.raised = "none" THEN r.data ELSE << >>,
         calls |-> r.calls,
         raised |-> r.raised,
         brk |-> Len(r.data) < bytes_per_block]

\* A slip write_meta_data_to_disk could make: the file opened with 'ab'
write_meta_data_to_disk_append(file, meta_data_bytes) ==
    file \o meta_data_bytes

\* WavFile.write_meta_data_to_disk: open(filename, 'wb') truncates the file,
\* then the header bytes are written
write_meta_data_to_disk(file, meta_data_bytes) == meta_data_bytes

(***************************************************************************)
(* The wave form synthesis                                                 *)
(***************************************************************************)

\* The m for which math.sin(m * math.pi), computed in doubles as
\* sample_offset / wave_sample_period * 2 * math.pi, is negative: fl(m * pi)
\* falls a little below or above the true multiple of pi
NegativeSinAtPiMultiple ==
    {2, 4, 6, 8, 10, 12, 13, 14, 16, 17, 18, 20, 21, 22, 24, 25, 28, 29, 30,
     32, 36, 38, 40, 44, 46, 47, 48, 54, 55, 56, 60, 62, 63, 64, 66, 70, 71,
     72, 74, 76, 78, 79, 80, 82, 83, 86, 88, 89, 90, 92, 96, 98, 99, 102,
     105, 106, 108, 112, 114, 115, 118, 120, 121, 122, 124, 128}

\* SquareWaveForm.y_from_x at x = sample_offset / wave_sample_period * 2 pi:
\* 0 when math.sin(x) < 0, else 1
SquareY(sample_offset, wave_sample_period) ==
    IF (2 * sample_offset) % wave_sample_period = 0
    THEN IF (2 * sample_offset) \div wave_sample_period
                \in NegativeSinAtPiMultiple
         THEN 0 ELSE 1
    ELSE IF (2 * sample_offset) % (2 * wave_sample_period) < wave_sample_period
         THEN 1 ELSE 0

\* int(y_val_from_eqn * sample_max_value / 2) with y_val_from_eqn =
\* SineWaveForm.y_from_x(x) = math.sin(x) / 2 + 1/2, in doubles, at
\* x = sample_offset / wave_sample_period * 2 * math.pi and
\* sample_max_value = 2^24 - 1 (the default header's 24 bits): by
\* wave_sample_period, the values at sample_offset = 0, 1, 2, ...
SineSampleValues ==
    (1 :> <<
         4194303, 4194303, 4194303, 4194303, 4194303, 4194303, 4194303,
         4194303, 4194303, 4194303, 4194303, 4194303, 4194303, 4194303,
         4194303, 4194303, 4194303, 4194303, 4194303, 4194303, 4194303,
         4194303, 4194303, 4194303, 4194303, 4194303, 4194303, 4194303,
         4194303, 4194303, 4194303>>) @@
    (2 :> <<
         4194303, 4194303, 4194303, 4194303, 4194303, 4194303, 4194303,
         4194303, 4194303, 4194303, 4194303, 4194303, 4194303, 4194303,
         4194303, 4194303, 4194303, 4194303, 4194303, 4194303, 4194303,
         4194303, 4194303, 4194303, 4194303, 4194303, 4194303, 4194303,
         4194303, 4194303, 4194303>>) @@
    (3 :> <<
         4194303, 7826677, 561930, 4194303, 7826677, 561930, 4194303,
         7826677, 561930, 4194303, 7826677, 561930, 4194303, 7826677,
         561930, 4194303, 7826677, 561930, 4194303, 7826677, 561930,
         4194303, 7826677, 561930, 4194303, 7826677, 561930, 4194303,
         7826677, 561930, 4194303>>) @@
    (5 :> <<
         4194303, 8183323, 6659653, 1728953, 205283, 4194303, 8183323,
         6659653, 1728953, 205283, 4194303, 8183323, 6659653, 1728953,
         205283, 4194303, 8183323, 6659653, 1728953, 205283, 4194303,
         8183323, 6659653, 1728953, 205283, 4194303, 8183323, 6659653,
         1728953, 205283, 4194303>>) @@
    (6 :> <<
         4194303, 7826677, 7826677, 4194303, 561930, 561930, 4194303,
         7826677, 7826677, 4194303, 561930, 561930, 4194303, 7826677,
         7826677, 4194303, 561930, 561930, 4194303, 7826677, 7826677,
         4194303, 561930, 561930, 4194303, 7826677, 7826677, 4194303,
         561930, 561930, 4194303>>)

\* The same with SawtoothWaveForm.y_from_x(x) = x - int(x)
SawtoothSampleValues ==
    (1 :> <<
         0, 2375530, 4751060, 7126591, 1113514, 3489044, 5864574, 8240105,
         2227028, 4602558, 6978088, 965011, 3340542, 5716072, 8091602,
         2078525, 4454056, 6829586, 816509, 3192039, 5567570, 7943100,
         1930023, 4305554, 6681084, 668007, 3043537, 5419068, 7794598,
         1781521, 4157051>>) @@
    (2 :> <<
         0, 1187765, 2375530, 3563295, 4751060, 5938825, 7126591, 8314356,
         1113514, 2301279, 3489044, 4676809, 5864574, 7052340, 8240105,
         1039262, 2227028, 3414793, 4602558, 5790323, 6978088, 8165854,
         965011, 2152777, 3340542, 4528307, 5716072, 6903837, 8091602,
         890760, 2078525>>) @@
    (3 :> <<
         0, 791843, 1583686, 2375530, 3167373, 3959217, 4751060, 5542904,
         6334747, 7126591, 7918434, 321670, 1113514, 1905357, 2697200,
         3489044, 4280887, 5072731, 5864574, 6656418, 7448261, 8240105,
         643341, 1435184, 2227028, 3018871, 3810715, 4602558, 5394401,
         6186245, 6978088>>) @@
    (5 :> <<
         0, 2152827, 4305655, 6458482, 222702, 2375530, 4528357, 6681185,
         445405, 2598233, 4751060, 6903888, 668108, 2820936, 4973763,
         7126591, 890811, 3043638, 5196466, 7349293, 1113514, 3266341,
         5419169, 7571996, 1336216, 3489044, 5641872, 7794699, 1558919,
         3711747, 5864574>>) @@
    (6 :> <<
         0, 395921, 791843, 1187765, 1583686, 1979608, 2375530, 2771452,
         3167373, 3563295, 3959217, 4355139, 4751060, 5146982, 5542904,
         5938825, 6334747, 6730669, 7126591, 7522512, 7918434, 8314356,
         321670, 717592, 1113514, 1509435, 1905357, 2301279, 2697200,
         3093122, 3489044>>)

\* A slip the amplitude mapping could make: the square wave's product
\* rounded to the nearest integer instead of cut to its integer part
SynthSampleValueRounded(kind, sample_offset, wave_sample_period, sample_max_value) ==
    CASE kind = "square" ->
             (SquareY(sample_offset, wave_sample_period) * sample_max_value
                 + 1) \div 2
      [] kind = "sine" ->
             SineSampleValues[wave_sample_period][sample_offset + 1]
      [] kind = "sawtooth" ->
             SawtoothSampleValues[wave_sample_period][sample_offset + 1]

\* sample_value = int(y_val_from_eqn * sample_max_value / 2), line 171, with
\* y_val_from_eqn = wave_form.y_from_x(x_val_for_eqn): int() cuts the
\* fraction off
SynthSampleValue(kind, sample_offset, wave_sample_period, sample_max_value) ==
    CASE kind = "square" ->
             (SquareY(sample_offset, wave_sample_period) * sample_max_value)
                 \div 2
      [] kind = "sine" ->
             SineSampleValues[wave_sample_period][sample_offset + 1]
      [] kind = "sawtooth" ->
             SawtoothSampleValues[wave_sample_period][sample_offset + 1]

RECURSIVE Repeat(_, _)
Repeat(b, n) == IF n = 0 THEN << >> ELSE b \o Repeat(b, n - 1)

RECURSIVE SynthBlockData(_, _, _, _, _, _)
\* The inner loop of create_new_wav_file_with_wave_form (lines 168-176):
\* the samples first .. last - 1 of one block, each written to every channel
SynthBlockData(kind, first, last, wave_sample_period, sample_max_value, m) ==
    IF first >= last THEN << >>
    ELSE LET codec == _get_per_sample_struct_format_str_and_padding(
                          m.format_chunk_bits_per_sample \div 8)
             sample_value == SynthSampleValue(kind, first, wave_sample_period,
                                              sample_max_value)
         IN  Repeat(PackSample(codec, sample_value).bytes,
                    m.format_chunk_num_channels)
               \o SynthBlockData(kind, first + 1, last, wave_sample_period,
                                 sample_max_value, m)

\* A slip the period could make: never less than one sample
WaveSamplePeriodAtLeastOne(sample_rate, frequency) ==
    IF sample_rate \div frequency = 0 THEN 1 ELSE sample_rate \div frequency

\* wave_sample_period = format_chunk_sample_rate // wave_form.frequency,
\* line 161, for a frequency other than 0
WaveSamplePeriod(sample_rate, frequency) == sample_rate \div frequency

\* A slip the block count could make: the division rounded down
SynthBlockCountFloor == NUM_SAMPLES_DEFAULT \div SAMPLES_PER_BLOCK

\* math.ceil(NUM_SAMPLES_DEFAULT / 1000); the literal 1000 of the source is
\* the value of SAMPLES_PER_BLOCK
SynthBlockCount ==
    (NUM_SAMPLES_DEFAULT + SAMPLES_PER_BLOCK - 1) \div SAMPLES_PER_BLOCK

(***************************************************************************)
(* State                                                                   *)
(***************************************************************************)

VARIABLES
    \* the header codec applied to one header record
    hdr,          \* the record given to get_bytes
    hbytes,       \* get_bytes(hdr)
    parsed,       \* _parse_meta_data(hbytes)
    verdict,      \* _validate_meta_data() on the parsed record
    hpc,          \* "off", "made", "encoded", "parsed", "validated"
    \* the per-sample codec applied to one sample value
    cwidth,       \* bytes_per_sample
    cvalue,       \* the sample value
    cenc,         \* struct.pack(fmt, value)[:-len(padding)]
    cdec,         \* struct.unpack_from(fmt, cenc + padding)[0]
    cpc,          \* "off", "chosen", "packed", "unpacked"
    \* one run of the transformation or of the synthesis
    op,           \* "off", "transform", "synth"
    src_file,     \* the bytes of the source file
    dest_file,    \* the bytes of the destination file
    trans_func,   \* "None", "remove_left_channel", "remove_right_channel"
    wave_form,    \* [kind, frequency]
    meta_data,    \* the WavFile's meta_data
    meta_data_bytes, \* the WavFile's meta_data_bytes
    src_handle,   \* the 'rb' handle: "unopened", "open", "closed"
    write_handle, \* the 'ab' handle: "unopened", "open", "closed"
    pc,           \* where the run is
    read_pos,     \* the position of the 'rb' handle in the source
    reads,        \* the read calls made on the source's payload
    writes,       \* the write calls made on the 'ab' handle
    calls,        \* the (channel_index, sample_value) given to trans_func
    raised,       \* the exception the run ended with, or "none"
    wave_sample_period,
    block_index

hvars == <<hdr, hbytes, parsed, verdict, hpc>>
cvars == <<cwidth, cvalue, cenc, cdec, cpc>>
mvars == <<op, src_file, dest_file, trans_func, wave_form, meta_data,
           meta_data_bytes, src_handle, write_handle, pc, read_pos, reads,
           writes, calls, raised, wave_sample_period, block_index>>
vars == <<hvars, cvars, mvars>>

NoVerdict == [success |-> TRUE, errors |-> << >>]

HeaderOff ==
    /\ hdr = WavFileMetaData
    /\ hbytes = << >>
    /\ parsed = WavFileMetaData
    /\ verdict = NoVerdict
    /\ hpc = "off"

NoSample == [ok |-> FALSE, value |-> 0, raised |-> "none"]

CodecOff ==
    /\ cwidth = 0
    /\ cvalue = 0
    /\ cenc = << >>
    /\ cdec = NoSample
    /\ cpc = "off"

NoWaveForm == [kind |-> "none", frequency |-> 1]

RunOff ==
    /\ op = "off"
    /\ src_file = << >>
    /\ dest_file = << >>
    /\ trans_func = "None"
    /\ wave_form = NoWaveForm
    /\ meta_data = WavFileMetaData
    /\ meta_data_bytes = << >>
    /\ src_handle = "unopened"
    /\ write_handle = "unopened"
    /\ pc = "off"
    /\ read_pos = 0
    /\ reads = 0
    /\ writes = 0
    /\ calls = << >>
    /\ raised = "none"
    /\ wave_sample_period = 0
    /\ block_index = 0

(***************************************************************************)
(* The header codec: get_bytes, _parse_meta_data, _validate_meta_data      *)
(***************************************************************************)

\* The header records the codec is applied to: every field takes its
\* expected (or a usual) value or another one, independently of the others
HeaderInputs ==
    [super_chunk_id : {SUPER_CHUNK_ID_EXPECTED, 16909060},
     super_chunk_size : {36, 2147483647},
     super_chunk_format : {SUPER_CHUNK_FORMAT_EXPECTED, 0},
     format_chunk_id : {FORMAT_CHUNK_ID_EXPECTED, 1},
     format_chunk_size : {FORMAT_CHUNK_SIZE_EXPECTED, 18},
     format_chunk_audio_format : {FORMAT_CHUNK_AUDIO_FORMAT_EXPECTED, 3},
     format_chunk_num_channels : {FORMAT_CHUNK_NUM_CHANNELS_EXPECTED, 1},
     format_chunk_sample_rate : {44100},
     format_chunk_byte_rate : {264600, 11259375},
     format_chunk_block_align : {6, 65535},
     format_chunk_bits_per_sample : {24, 12},
     data_chunk_id : {DATA_CHUNK_ID_EXPECTED, 1635017060},
     data_chunk_size : {0, 16909060}]

InitHeader ==
    /\ hdr \in HeaderInputs
    /\ hbytes = << >>
    /\ parsed = WavFileMetaData
    /\ verdict = NoVerdict
    /\ hpc = "made"
    /\ CodecOff
    /\ RunOff

GetBytes ==
    /\ hpc = "made"
    /\ hbytes' = get_bytes(hdr)
    /\ hpc' = "encoded"
    /\ UNCHANGED <<hdr, parsed, verdict, cvars, mvars>>

ParseMetaData ==
    /\ hpc = "encoded"
    /\ parsed' = _parse_meta_data(hbytes)
    /\ hpc' = "parsed"
    /\ UNCHANGED <<hdr, hbytes, verdict, cvars, mvars>>

ValidateMetaData ==
    /\ hpc = "parsed"
    /\ verdict' = _validate_meta_data(parsed)
    /\ hpc' = "validated"
    /\ UNCHANGED <<hdr, hbytes, parsed, cvars, mvars>>

NextHeader == GetBytes \/ ParseMetaData \/ ValidateMetaData

SpecHeader == InitHeader /\ [][NextHeader]_vars

(***************************************************************************)
(* The per-sample codec applied to one value: encode, then decode          *)
(***************************************************************************)

\* Sample values around the byte boundaries of each width
SampleInputs ==
    {0, 1, 127, 128, 255, 256, 258, 32768, 65535, 65536, 66051, 8388608,
     16777215, 16777216, 16909060, 2147483647}

\* 2^(8 * bytes_per_sample) - 1, capped at the model's largest integer
SampleMax(bytes_per_sample) ==
    IF bytes_per_sample >= 4 THEN 2147483647
    ELSE Pow(256, bytes_per_sample) - 1

InitCodec ==
    /\ cwidth \in 1..4
    /\ cvalue \in {v \in SampleInputs : v <= SampleMax(cwidth)}
    /\ cenc = << >>
    /\ cdec = NoSample
    /\ cpc = "chosen"
    /\ HeaderOff
    /\ RunOff

EncodeSample ==
    /\ cpc = "chosen"
    /\ LET codec == _get_per_sample_struct_format_str_and_padding(cwidth)
       IN  cenc' = PackSample(codec, cvalue).bytes
    /\ cpc' = "packed"
    /\ UNCHANGED <<cwidth, cvalue, cdec, hvars, mvars>>

DecodeSample ==
    /\ cpc = "packed"
    /\ LET codec == _get_per_sample_struct_format_str_and_padding(cwidth)
           r == UnpackSample(codec, cenc)
       IN  cdec' = [ok |-> r.ok, value |-> r.value, raised |-> r.raised]
    /\ cpc' = "unpacked"
    /\ UNCHANGED <<cwidth, cvalue, cenc, hvars, mvars>>

NextCodec == EncodeSample \/ DecodeSample

SpecCodec == InitCodec /\ [][NextCodec]_vars

(***************************************************************************)
(* One run of create_new_wav_file_with_transformation on a file opened     *)
(* with open_existing, or of create_new_wav_file_with_wave_form            *)
(***************************************************************************)

\* The longest source payload, in bytes
MaxPayloadLen == 30

\* The bits_per_sample of the source files whose header validation accepts
SourceBits == {0, 8, 16, 24, 32, 40, 72}

\* (bits_per_sample, num_channels) of the source files: the accepted ones,
\* and two that validation rejects
SourceFormats == {<<b, 2>> : b \in SourceBits} \cup {<<12, 2>>, <<24, 1>>}

\* The header of a source file with n bytes of payload
SourceHeader(bits, num_channels, n) ==
    [make_default EXCEPT
        !.super_chunk_size = NUM_BYTES_BEFORE_DATA_STARTS - 8 + n,
        !.format_chunk_num_channels = num_channels,
        !.format_chunk_byte_rate =
            FORMAT_CHUNK_SAMPLE_RATE_DEFAULT * num_channels * (bits \div 8),
        !.format_chunk_block_align = num_channels * (bits \div 8),
        !.format_chunk_bits_per_sample = bits,
        !.data_chunk_size = n]

\* Two payloads of every length: 1, 2, 3, ... and 255, 191, 127, 63, 254,
\* ...  (the bytes at offsets 3, 7, ... stay below 128, so that a 4-byte
\* sample stays below 2^31)
PayloadSeeds == {0, 1}

Payload(seed, n) ==
    [i \in 1..n |->
        IF seed = 0 THEN i % 128
        ELSE 255 - 64 * ((i - 1) % 4) - ((i - 1) \div 4)]

\* What the destination path may hold before the run: nothing, or a file
DestBefore == {<< >>, <<7, 7, 7>>}

TransFuncs ==
    {"None", "remove_left_channel", "remove_right_channel", "add_above_range"}

\* The frequencies given to the wave form: 0, some up to the sample rate,
\* and one above it
Frequencies ==
    {0, 1, 2, FORMAT_CHUNK_SAMPLE_RATE_DEFAULT,
     FORMAT_CHUNK_SAMPLE_RATE_DEFAULT + 1}

\* wave_forms_by_name of generation.py
WaveFormKinds == {"square", "sine", "sawtooth"}

SrcPayload == Slice(src_file, NUM_BYTES_BEFORE_DATA_STARTS, Len(src_file))

InitTransform ==
    /\ op = "transform"
    /\ \E f \in SourceFormats, n \in 0..MaxPayloadLen, seed \in PayloadSeeds :
         src_file = get_bytes(SourceHeader(f[1], f[2], n)) \o Payload(seed, n)
    /\ dest_file \in DestBefore
    /\ trans_func \in TransFuncs
    /\ wave_form = NoWaveForm
    /\ meta_data = WavFileMetaData
    /\ meta_data_bytes = << >>
    /\ pc = "open_existing"

InitSynth ==
    /\ op = "synth"
    /\ src_file = << >>
    /\ dest_file \in DestBefore
    /\ trans_func = "None"
    /\ wave_form \in [kind : WaveFormKinds, frequency : Frequencies]
    /\ meta_data = WavFileMetaData
    /\ meta_data_bytes = << >>
    /\ pc = "synth_start"

Init ==
    /\ InitTransform \/ InitSynth
    /\ src_handle = "unopened"
    /\ write_handle = "unopened"
    /\ read_pos = 0
    /\ reads = 0
    /\ writes = 0
    /\ calls = << >>
    /\ raised = "none"
    /\ wave_sample_period = 0
    /\ block_index = 0
    /\ HeaderOff
    /\ CodecOff

BytesPerSample == meta_data.format_chunk_bits_per_sample \div 8

\* WavFile.open_existing: _read_meta_data_from_disk reads the first 44
\* bytes, parses them and asserts that they validate
OpenExisting ==
    /\ pc = "open_existing"
    /\ \E bytes \in {Slice(src_file, 0, NUM_BYTES_BEFORE_DATA_STARTS)} :
       \E m \in {IF Len(bytes) < NUM_BYTES_BEFORE_DATA_STARTS
                 THEN WavFileMetaData ELSE _parse_meta_data(bytes)} :
       \E v \in {_validate_meta_data(m)} :
       LET short == Len(bytes) < NUM_BYTES_BEFORE_DATA_STARTS
       IN  /\ meta_data_bytes' = bytes
           /\ meta_data' = m
           /\ raised' = IF short THEN "struct.error"
                        ELSE IF v.success THEN "none" ELSE "AssertionError"
           /\ pc' = IF ~short /\ v.success THEN "opened" ELSE "rejected"
    /\ UNCHANGED <<op, src_file, dest_file, trans_func, wave_form, src_handle,
                   write_handle, read_pos, reads, writes, calls,
                   wave_sample_period, block_index, hvars, cvars>>

\* create_new_wav_file_with_transformation, lines 126-130: the destination
\* gets the source's meta_data and meta_data_bytes, the header is written to
\* disk, and the file is opened again with 'ab'
WriteHeader ==
    /\ pc = "opened"
    /\ dest_file' = write_meta_data_to_disk(dest_file, meta_data_bytes)
    /\ write_handle' = "open"
    /\ pc' = "header_written"
    /\ UNCHANGED <<op, src_file, trans_func, wave_form, meta_data,
                   meta_data_bytes, src_handle, read_pos, reads, writes,
                   calls, raised, wave_sample_period, block_index, hvars,
                   cvars>>

\* Lines 133-136: the source is opened, the handle is moved past the header,
\* and the block size and the sample codec are computed; an exception leaves
\* the with block, which closes the source
OpenSource ==
    /\ pc = "header_written"
    /\ LET codec == _get_per_sample_struct_format_str_and_padding(
                        BytesPerSample)
       IN  /\ raised' = codec.raised
           /\ pc' = IF codec.raised = "none" THEN "streaming" ELSE "failed"
           /\ src_handle' = IF codec.raised = "none" THEN "open" ELSE "closed"
    /\ read_pos' = NUM_BYTES_BEFORE_DATA_STARTS
    /\ UNCHANGED <<op, src_file, dest_file, trans_func, wave_form, meta_data,
                   meta_data_bytes, write_handle, reads, writes, calls,
                   wave_sample_period, block_index, hvars, cvars>>

\* One iteration of the while loop, lines 138-149.  The end of the loop
\* leaves the with block.
TransformBlock ==
    /\ pc = "streaming"
    /\ LET b == TransformLoopBody(
                    Slice(src_file, read_pos, Len(src_file)),
                    _get_read_block_size(meta_data), BytesPerSample,
                    meta_data.format_chunk_num_channels,
                    _get_per_sample_struct_format_str_and_padding(
                        BytesPerSample),
                    trans_func)
       IN  /\ read_pos' = read_pos + b.nread
           /\ reads' = reads + 1
           /\ calls' = calls \o b.calls
           /\ raised' = b.raised
           /\ dest_file' = dest_file \o b.written
           /\ writes' = IF b.raised = "none" THEN writes + 1 ELSE writes
           /\ pc' = IF b.raised # "none" THEN "failed"
                    ELSE IF b.brk THEN "loop_exit" ELSE "streaming"
           /\ src_handle' = IF b.raised # "none" \/ b.brk THEN "closed"
                            ELSE "open"
    /\ UNCHANGED <<op, src_file, trans_func, wave_form, meta_data,
                   meta_data_bytes, write_handle, wave_sample_period,
                   block_index, hvars, cvars>>

\* The read of an iteration raises (an I/O error): the exception leaves the
\* with block and the function; write_file.close() is not reached
ReadFault ==
    /\ pc = "streaming"
    /\ reads' = reads + 1
    /\ raised' = "OSError:read"
    /\ pc' = "failed"
    /\ src_handle' = "closed"
    /\ UNCHANGED <<op, src_file, dest_file, trans_func, wave_form, meta_data,
                   meta_data_bytes, write_handle, read_pos, writes, calls,
                   wave_sample_period, block_index, hvars, cvars>>

\* The write of an iteration raises, after the block was read and processed
WriteFault ==
    /\ pc = "streaming"
    /\ LET b == TransformLoopBody(
                    Slice(src_file, read_pos, Len(src_file)),
                    _get_read_block_size(meta_data), BytesPerSample,
                    meta_data.format_chunk_num_channels,
                    _get_per_sample_struct_format_str_and_padding(
                        BytesPerSample),
                    trans_func)
       IN  /\ b.raised = "none"
           /\ read_pos' = read_pos + b.nread
           /\ calls' = calls \o b.calls
    /\ reads' = reads + 1
    /\ raised' = "OSError:write"
    /\ pc' = "failed"
    /\ src_handle' = "closed"
    /\ UNCHANGED <<op, src_file, dest_file, trans_func, wave_form, meta_data,
                   meta_data_bytes, write_handle, writes, wave_sample_period,
                   block_index, hvars, cvars>>

\* Lines 150-151: write_file.close() and the return
CloseWriteFile ==
    /\ pc = "loop_exit"
    /\ write_handle' = "closed"
    /\ pc' = "done"
    /\ UNCHANGED <<op, src_file, dest_file, trans_func, wave_form, meta_data,
                   meta_data_bytes, src_handle, read_pos, reads, writes,
                   calls, raised, wave_sample_period, block_index, hvars,
                   cvars>>

\* create_new_wav_file_with_wave_form, lines 155-158: the default header is
\* made, encoded and written to disk
SynthWriteHeader ==
    /\ pc = "synth_start"
    /\ meta_data' = make_default
    /\ meta_data_bytes' = get_bytes(make_default)
    /\ dest_file' = write_meta_data_to_disk(dest_file, get_bytes(make_default))
    /\ pc' = "synth_header_written"
    /\ UNCHANGED <<op, src_file, trans_func, wave_form, src_handle,
                   write_handle, read_pos, reads, writes, calls, raised,
                   wave_sample_period, block_index, hvars, cvars>>

\* Lines 159-163: the period of the wave in samples (a frequency of 0 raises
\* ZeroDivisionError here, before the file is opened), then the file is
\* opened with 'ab' in a with block
SynthOpen ==
    /\ pc = "synth_header_written"
    /\ IF wave_form.frequency = 0
       THEN /\ raised' = "ZeroDivisionError"
            /\ pc' = "failed"
            /\ UNCHANGED <<wave_sample_period, write_handle>>
       ELSE /\ wave_sample_period' =
                WaveSamplePeriod(meta_data.format_chunk_sample_rate,
                                 wave_form.frequency)
            /\ write_handle' = "open"
            /\ pc' = "synth_loop"
            /\ UNCHANGED raised
    /\ UNCHANGED <<op, src_file, dest_file, trans_func, wave_form, meta_data,
                   meta_data_bytes, src_handle, read_pos, reads, writes,
                   calls, block_index, hvars, cvars>>

\* One iteration of the loop over the blocks, lines 164-177: the samples of
\* the block are computed and written.  A period of 0 raises
\* ZeroDivisionError at the first sample (line 169); the exception leaves
\* the with block, which closes the file.
SynthBlock ==
    /\ pc = "synth_loop"
    /\ block_index < SynthBlockCount
    /\ LET sample_max_value ==
               Pow(2, meta_data.format_chunk_bits_per_sample) - 1
           sample_index_start == block_index * SAMPLES_PER_BLOCK
           sample_index_end ==
               Min(sample_index_start + SAMPLES_PER_BLOCK, NUM_SAMPLES_DEFAULT)
       IN  IF wave_sample_period = 0
           THEN /\ raised' = "ZeroDivisionError"
                /\ pc' = "failed"
                /\ write_handle' = "closed"
                /\ UNCHANGED <<dest_file, writes, block_index>>
           ELSE /\ dest_file' = dest_file \o
                        SynthBlockData(wave_form.kind,
                                       sample_index_start, sample_index_end,
                                       wave_sample_period, sample_max_value,
                                       meta_data)
                /\ writes' = writes + 1
                /\ block_index' = block_index + 1
                /\ UNCHANGED <<raised, pc, write_handle>>
    /\ UNCHANGED <<op, src_file, trans_func, wave_form, meta_data,
                   meta_data_bytes, src_handle, read_pos, reads, calls,
                   wave_sample_period, hvars, cvars>>

\* The write of a block raises: the exception leaves the with block
SynthWriteFault ==
    /\ pc = "synth_loop"
    /\ block_index < SynthBlockCount
    /\ wave_sample_period # 0
    /\ raised' = "OSError:write"
    /\ pc' = "failed"
    /\ write_handle' = "closed"
    /\ UNCHANGED <<op, src_file, dest_file, trans_func, wave_form, meta_data,
                   meta_data_bytes, src_handle, read_pos, reads, writes,
                   calls, wave_sample_period, block_index, hvars, cvars>>

\* The loop is over: the with block closes the file, line 178 returns
SynthReturn ==
    /\ pc = "synth_loop"
    /\ block_index = SynthBlockCount
    /\ write_handle' = "closed"
    /\ pc' = "done"
    /\ UNCHANGED <<op, src_file, dest_file, trans_func, wave_form, meta_data,
                   meta_data_bytes, src_handle, read_pos, reads, writes,
                   calls, raised, wave_sample_period, block_index, hvars,
                   cvars>>

Next ==
    \/ OpenExisting
    \/ WriteHeader
    \/ OpenSource
    \/ ReadFault
    \/ TransformBlock
    \/ WriteFault
    \/ CloseWriteFile
    \/ SynthWriteHeader
    \/ SynthOpen
    \/ SynthBlock
    \/ SynthWriteFault
    \/ SynthReturn

Spec == Init /\ [][Next]_vars

\* The run is one sequential call: it takes its next step as long as it has
\* one
FairSpec == Spec /\ WF_vars(Next)

(***************************************************************************)
(* Properties of the header codec (under SpecHeader)                       *)
(***************************************************************************)

\* C3 (header round trip): once get_bytes(h) has been parsed back, the
\* encoding is 44 bytes long and the parsed record equals h field by field.
HeaderRoundTrip ==
    hpc \in {"parsed", "validated"} =>
        /\ Len(hbytes) = NUM_BYTES_BEFORE_DATA_STARTS
        /\ parsed = hdr

\* A header whose two byte orders differ in every 32-bit field has made the
\* round trip
HeaderRoundTripWitness ==
    /\ hpc = "parsed"
    /\ hdr.super_chunk_id = 16909060
    /\ hdr.super_chunk_size = 2147483647
    /\ hdr.data_chunk_size = 16909060
    /\ hdr.format_chunk_block_align = 65535
    /\ parsed.super_chunk_size = 2147483647

\* The expected values _validate_meta_data compares with
ExpectedValue ==
    [super_chunk_id |-> SUPER_CHUNK_ID_EXPECTED,
     super_chunk_format |-> SUPER_CHUNK_FORMAT_EXPECTED,
     format_chunk_id |-> FORMAT_CHUNK_ID_EXPECTED,
     format_chunk_size |-> FORMAT_CHUNK_SIZE_EXPECTED,
     format_chunk_audio_format |-> FORMAT_CHUNK_AUDIO_FORMAT_EXPECTED,
     format_chunk_num_channels |-> FORMAT_CHUNK_NUM_CHANNELS_EXPECTED,
     data_chunk_id |-> DATA_CHUNK_ID_EXPECTED]

\* The constrained fields of m that violate their constraint
ViolatedFields(m) ==
    {f \in DOMAIN ExpectedValue : m[f] # ExpectedValue[f]}
        \cup (IF m.format_chunk_bits_per_sample % 8 # 0
              THEN {"format_chunk_bits_per_sample"} ELSE {})

\* C4 (validation completeness): validation of a header with N violated
\* constrained fields fails (succeeds when N = 0) with exactly N errors, one
\* for each violated field and none for any other, whatever the subset; an
\* error of a field with an expected value cites the actual and the expected
\* value (so a header whose only violation is num_channels = 1 gets the one
\* error num_channels | actual = 1 expected = 2).
ValidationComplete ==
    hpc = "validated" =>
        LET V == ViolatedFields(parsed)
            E == verdict.errors
        IN  /\ Len(E) = Cardinality(V)
            /\ verdict.success = (V = {})
            /\ \A f \in V : \E i \in 1..Len(E) : E[i].field = f
            /\ \A i \in 1..Len(E) :
                 /\ E[i].field \in V
                 /\ E[i].field \in DOMAIN ExpectedValue =>
                      /\ E[i].actual = parsed[E[i].field]
                      /\ E[i].expected = ExpectedValue[E[i].field]

\* The mono header: num_channels = 1 is its only violation, and it got one
\* error
ValidationCompleteWitness ==
    /\ hpc = "validated"
    /\ parsed.format_chunk_num_channels = 1
    /\ ViolatedFields(parsed) = {"format_chunk_num_channels"}
    /\ ~verdict.success
    /\ Len(verdict.errors) = 1
    /\ verdict.errors[1].field = "format_chunk_num_channels"
    /\ verdict.errors[1].actual = 1
    /\ verdict.errors[1].expected = 2

\* byte_rate = sample_rate x channels x bytes_per_sample
ByteRateConsistent(m) ==
    m.format_chunk_byte_rate =
        m.format_chunk_sample_rate * m.format_chunk_num_channels
            * (m.format_chunk_bits_per_sample \div 8)

\* block_align = channels x bytes_per_sample
BlockAlignConsistent(m) ==
    m.format_chunk_block_align =
        m.format_chunk_num_channels * (m.format_chunk_bits_per_sample \div 8)

HasErrorFor(field) ==
    \E i \in 1..Len(verdict.errors) : verdict.errors[i].field = field

\* C5 as claimed: a header whose byte_rate or block_align differs from the
\* value derived from the other fields is reported as a violation of that
\* field.
ValidateReportsRates ==
    hpc = "validated" =>
        /\ ~ByteRateConsistent(parsed) => HasErrorFor("format_chunk_byte_rate")
        /\ ~BlockAlignConsistent(parsed) =>
               HasErrorFor("format_chunk_block_align")

\* C5 as amended: validation checks the four chunk ids and tags,
\* fmt_size = 16, audio_format = 1, num_channels = 2 and
\* bits_per_sample % 8 = 0, and nothing else: byte_rate and block_align are
\* never reported, and a header that meets those eight constraints is
\* accepted whatever its byte_rate and block_align.
ValidateIgnoresRates ==
    hpc = "validated" =>
        /\ ~HasErrorFor("format_chunk_byte_rate")
        /\ ~HasErrorFor("format_chunk_block_align")
        /\ ViolatedFields(parsed) = {} =>
               verdict.success /\ Len(verdict.errors) = 0

\* A header with a wrong byte_rate and a wrong block_align was accepted
ValidateIgnoresRatesWitness ==
    /\ hpc = "validated"
    /\ ~ByteRateConsistent(parsed)
    /\ ~BlockAlignConsistent(parsed)
    /\ verdict.success
    /\ Len(verdict.errors) = 0

(***************************************************************************)
(* Properties of the per-sample codec (under SpecCodec)                    *)
(***************************************************************************)

\* C6 (width correctness): for bytes_per_sample in 1..4 and a value that
\* fits the width, the encoding is exactly bytes_per_sample bytes long and
\* decodes to the value.
WidthCorrect ==
    /\ cpc \in {"packed", "unpacked"} => Len(cenc) = cwidth
    /\ cpc = "unpacked" => cdec.ok /\ cdec.value = cvalue

(***************************************************************************)
(* Properties of the transformation and of the synthesis (under Spec)      *)
(***************************************************************************)

\* The injected I/O errors, as opposed to what the code raises by itself
IOFaults == {"OSError:read", "OSError:write"}

DestPayload == Slice(dest_file, NUM_BYTES_BEFORE_DATA_STARTS, Len(dest_file))

Ended == pc \in {"done", "failed"}

\* C1 (identity copy): with trans_func = None, the transformation of a
\* source whose header was accepted, of 1 to 4 bytes per sample and with a
\* payload of any whole number of samples, completes (unless a read or a
\* write fails) and the destination is byte-identical to the source.
IdentityCopy ==
    (op = "transform" /\ trans_func = "None" /\ Ended
        /\ raised \notin IOFaults
        /\ BytesPerSample \in 1..4
        /\ Len(SrcPayload) % BytesPerSample = 0) =>
        /\ pc = "done"
        /\ dest_file = src_file

\* The channel a silencing transform sets to 0
SilencedChannel(trans) == IF trans = "remove_left_channel" THEN 1 ELSE 0

\* C2 (channel isolation): with a "silence channel k" transform, the
\* transformation of a source of 1 to 4 bytes per sample whose payload is a
\* whole number of samples completes (unless a read or a write fails), the
\* output has a slot for every source sample, every slot whose channel
\* index, as given to the transform, is k decodes to 0, and every other
\* slot equals the source's.
ChannelIsolation ==
    (op = "transform" /\ Ended
        /\ trans_func \in {"remove_left_channel", "remove_right_channel"}
        /\ raised \notin IOFaults
        /\ BytesPerSample \in 1..4
        /\ Len(SrcPayload) % BytesPerSample = 0) =>
        LET w == BytesPerSample
            n == Len(SrcPayload) \div w
        IN  /\ pc = "done"
            /\ Len(calls) = n
            /\ Len(DestPayload) = Len(SrcPayload)
            /\ \A p \in 0..(n - 1) :
                 IF calls[p + 1][1] = SilencedChannel(trans_func)
                 THEN UnpackLE(Slice(DestPayload, p * w, p * w + w), w) = 0
                 ELSE Slice(DestPayload, p * w, p * w + w)
                          = Slice(SrcPayload, p * w, p * w + w)

\* C7 (partial final block): the identity transformation of a 3-byte stereo
\* source whose payload is a whole number of frames, not a multiple of
\* SAMPLES_PER_BLOCK, fails only when a read or a write does; when it
\* completes it has read and written every full block and then the short
\* one, and the destination equals the source in length and content.
PartialFinalBlock ==
    (op = "transform" /\ trans_func = "None" /\ Ended
        /\ meta_data.format_chunk_bits_per_sample = 24
        /\ meta_data.format_chunk_num_channels = 2
        /\ Len(SrcPayload) % 6 = 0
        /\ (Len(SrcPayload) \div 6) % SAMPLES_PER_BLOCK # 0) =>
        /\ pc = "failed" => raised \in IOFaults
        /\ pc = "done" =>
             /\ reads = Len(SrcPayload) \div _get_read_block_size(meta_data) + 1
             /\ writes = reads
             /\ Len(dest_file) = Len(src_file)
             /\ dest_file = src_file

\* Two full blocks and a short one were copied
PartialFinalBlockWitness ==
    /\ op = "transform"
    /\ trans_func = "None"
    /\ pc = "done"
    /\ meta_data.format_chunk_bits_per_sample = 24
    /\ Len(SrcPayload) = 5 * SAMPLES_PER_BLOCK * 3
    /\ reads = 3
    /\ dest_file = src_file

\* The 44 bytes the run writes first: the source's raw header, or the
\* encoding of the default header
ExpectedHeader ==
    IF op = "transform"
    THEN Slice(src_file, 0, NUM_BYTES_BEFORE_DATA_STARTS)
    ELSE get_bytes(make_default)

\* C8 (header-first ordering): no step writes to the destination before the
\* header step; the header step leaves the destination holding exactly the
\* 44 header bytes (the source's raw header, or the encoding of the default
\* header), whatever it held before; every later step only appends.
HeaderFirst ==
    [][/\ pc = "open_existing" => dest_file' = dest_file
       /\ pc \in {"opened", "synth_start"} =>
            /\ Len(dest_file') = NUM_BYTES_BEFORE_DATA_STARTS
            /\ dest_file' = ExpectedHeader
            /\ writes' = 0
       /\ pc \in {"header_written", "streaming", "loop_exit",
                  "synth_header_written", "synth_loop"} =>
            /\ Len(dest_file') >= Len(dest_file)
            /\ SubSeq(dest_file', 1, Len(dest_file)) = dest_file
            /\ SubSeq(dest_file', 1, NUM_BYTES_BEFORE_DATA_STARTS)
                   = ExpectedHeader]_vars

\* A transformation wrote the header and then several blocks
HeaderFirstWitness ==
    /\ op = "transform"
    /\ pc = "done"
    /\ writes >= 2
    /\ Len(dest_file) > NUM_BYTES_BEFORE_DATA_STARTS
    /\ SubSeq(dest_file, 1, NUM_BYTES_BEFORE_DATA_STARTS) = meta_data_bytes

\* C9 (resource release): when the transformation or the synthesis has
\* returned or raised, every file handle it opened is closed.
ResourceRelease ==
    Ended => src_handle # "open" /\ write_handle # "open"

\* What the transform makes of the payload bytes in, sample by sample: the
\* sample at position p (of w bytes) is given channel index (p + 1) mod
\* num_channels, and a result that does not fit w bytes is reduced mod
\* 2^(8w)
ExpectedOutput(in, w, num_channels, trans) ==
    [j \in 1..Len(in) |->
        LET p == (j - 1) \div w
        IN  CASE trans \in {"remove_left_channel", "remove_right_channel"} ->
                     IF (p + 1) % num_channels = SilencedChannel(trans)
                     THEN 0 ELSE in[j]
              [] trans = "add_above_range" ->
                     PackLE((UnpackLE(Slice(in, p * w, p * w + w), w)
                                + AboveRange) % Pow(256, w), w)[j - p * w]
              [] OTHER -> in[j]]

Accepted == op = "transform" /\ pc \notin {"open_existing", "rejected"}

\* C11 (unsupported width fails fast): the transformation of a source whose
\* accepted header has more than 4 bytes per sample never completes, ends
\* with an error whatever the payload (an empty one too), and writes no
\* payload byte.
UnsupportedWidthFailsFast ==
    (Accepted /\ BytesPerSample > 4) =>
        /\ pc \notin {"loop_exit", "done"}
        /\ pc = "failed" => raised # "none"
        /\ writes = 0
        /\ pc # "opened" => dest_file = meta_data_bytes

\* C15 (validation guarantees a supported width): every header that
\* open_existing accepted has 1 to 4 bytes per sample.
AcceptedWidthSupported ==
    Accepted => BytesPerSample \in 1..4

\* The file a synthesis holds once the first n samples were written: a
\* function of the wave form's kind and frequency and of the default
\* header, and of nothing else
SynthesizedFile(wf, n) ==
    get_bytes(make_default)
        \o SynthBlockData(wf.kind, 0, n,
                          WaveSamplePeriod(
                              make_default.format_chunk_sample_rate,
                              wf.frequency),
                          Pow(2, make_default.format_chunk_bits_per_sample) - 1,
                          make_default)

\* The samples written after block_index blocks
SamplesWritten == Min(block_index * SAMPLES_PER_BLOCK, NUM_SAMPLES_DEFAULT)

\* C12 (synthesis determinism): the destination of a synthesis is, block
\* after block and when it completes, the file that the wave form's kind
\* and frequency determine, whatever the destination held before: two runs
\* with the same wave form end with the same bytes.
SynthesisDeterministic ==
    (op = "synth" /\ pc \in {"synth_loop", "done"}) =>
        /\ dest_file = SynthesizedFile(wave_form, SamplesWritten)
        /\ pc = "done" => SamplesWritten = NUM_SAMPLES_DEFAULT

\* A sawtooth of several periods was synthesized to the end
SynthesisDeterministicWitness ==
    /\ op = "synth"
    /\ pc = "done"
    /\ wave_form.kind = "sawtooth"
    /\ wave_form.frequency = 2
    /\ Len(DestPayload) = NUM_SAMPLES_DEFAULT * 6
    /\ \E i \in 1..Len(DestPayload) : DestPayload[i] # DestPayload[1]

\* C13 (channel index convention): in the transformation of a source of 1
\* to 4 bytes per sample, trans_func is called once per sample in file
\* order; the call for the sample at payload position p gets channel index
\* (p + 1) mod num_channels (1 for the very first sample) and the sample's
\* value, across block boundaries; a completed run has called it for every
\* sample.
ChannelIndexConvention ==
    (Accepted /\ BytesPerSample \in 1..4) =>
        LET w == BytesPerSample IN
        /\ trans_func = "None" => calls = << >>
        /\ \A i \in 1..Len(calls) :
             /\ calls[i][1] = i % meta_data.format_chunk_num_channels
             /\ calls[i][2]
                    = UnpackLE(Slice(SrcPayload, (i - 1) * w, i * w), w)
        /\ (pc = "done" /\ trans_func # "None") =>
               Len(calls) * w = Len(SrcPayload)

(***************************************************************************)
(* Termination of the read loop (under FairSpec)                           *)
(***************************************************************************)

\* The call has returned or raised
Terminated == pc \in {"done", "failed", "rejected"}

\* The reads a payload of the source's length takes: every full block, then
\* the first short one
ReadsToEnd == Len(SrcPayload) \div _get_read_block_size(meta_data) + 1

SynthSlot(k, c) ==
    UnpackLE(Slice(DestPayload, (k * 2 + c) * 3, (k * 2 + c) * 3 + 3), 3)

\* The largest value of a sample of the default header: 2^24 - 1
SampleMaxDefault == Pow(2, make_default.format_chunk_bits_per_sample) - 1

\* C16 (synthesis amplitude mapping, as claimed): every sample a square
\* wave synthesis has written equals round(y * sampleMax / 2), i.e. 0 for
\* y = 0 and round(16777215 / 2) = 8388608 for y = 1.
SynthRoundsAmplitude ==
    (op = "synth" /\ wave_form.kind = "square"
        /\ pc \in {"synth_loop", "done"}) =>
        \A k \in 0..(SamplesWritten - 1) : \A c \in 0..1 :
            SynthSlot(k, c)
                = (SquareY(k, wave_sample_period) * SampleMaxDefault + 1)
                      \div 2

\* C16 (as amended): every sample a synthesis has written is the integer
\* part of y * sampleMax / 2, the same in both channels: for the square wave
\* 0 for y = 0 and 8388607 for y = 1, and never more than 8388607 for the
\* sine and the sawtooth, whose y is at most 1.
SynthTruncatesAmplitude ==
    (op = "synth" /\ pc \in {"synth_loop", "done"}) =>
        /\ Len(DestPayload) = SamplesWritten * 6
        /\ \A k \in 0..(SamplesWritten - 1) : \A c \in 0..1 :
             /\ wave_form.kind = "square" =>
                  /\ SynthSlot(k, c)
                         = (SquareY(k, wave_sample_period) * SampleMaxDefault)
                               \div 2
                  /\ SynthSlot(k, c) \in {0, 8388607}
             /\ SynthSlot(k, c) <= SampleMaxDefault \div 2
             /\ SynthSlot(k, c) = SynthSlot(k, 0)

\* A square wave was synthesized to the end, with samples at both levels
SynthTruncatesAmplitudeWitness ==
    /\ op = "synth"
    /\ pc = "done"
    /\ wave_form.kind = "square"
    /\ \E k \in 0..(NUM_SAMPLES_DEFAULT - 1) : SynthSlot(k, 0) = 8388607
    /\ \E k \in 0..(NUM_SAMPLES_DEFAULT - 1) : SynthSlot(k, 1) = 0

\* The header at the start of the destination, parsed back
DestHeader ==
    _parse_meta_data(Slice(dest_file, 0, NUM_BYTES_BEFORE_DATA_STARTS))

\* C17 (the synthesized file is self-consistent): when a synthesis has
\* completed, the payload has as many bytes as the header's data_chunk_size
\* says, which is NUM_SAMPLES_DEFAULT x 2 channels x 3 bytes, the file has
\* super_chunk_size + 8 = 44 + data_chunk_size bytes, and the header passes
\* _validate_meta_data.
SynthSelfConsistent ==
    (op = "synth" /\ pc = "done") =>
        /\ DestHeader = make_default
        /\ Len(DestPayload) = DestHeader.data_chunk_size
        /\ DestHeader.data_chunk_size
               = NUM_SAMPLES_DEFAULT * FORMAT_CHUNK_NUM_CHANNELS_EXPECTED
                     * BYTES_PER_SAMPLE_DEFAULT
        /\ Len(dest_file) = DestHeader.super_chunk_size + 8
        /\ Len(dest_file)
               = NUM_BYTES_BEFORE_DATA_STARTS + DestHeader.data_chunk_size
        /\ _validate_meta_data(DestHeader).success
        /\ block_index = SynthBlockCount
        /\ writes = SynthBlockCount

\* A sine wave was synthesized to the end, in several blocks
SynthSelfConsistentWitness ==
    /\ op = "synth"
    /\ pc = "done"
    /\ wave_form.kind = "sine"
    /\ writes > 2
    /\ Len(DestPayload) = NUM_SAMPLES_DEFAULT * 6
    /\ DestHeader.data_chunk_size = Len(DestPayload)

\* C19 (frequency above the sample rate): a synthesis with
\* frequency > sample_rate has a period of 0 samples, never completes and
\* never writes a payload byte; it ends with ZeroDivisionError at the first
\* sample, after the header was written, leaving the file closed with
\* exactly the 44 header bytes, whose data_chunk_size is that of the full
\* payload.
FrequencyAboveSampleRate ==
    (op = "synth"
        /\ wave_form.frequency > make_default.format_chunk_sample_rate) =>
        /\ pc # "done"
        /\ writes = 0
        /\ pc \in {"synth_loop", "failed"} =>
             /\ wave_sample_period = 0
             /\ block_index = 0
             /\ dest_file = get_bytes(make_default)
        /\ pc = "failed" =>
             /\ raised = "ZeroDivisionError"
             /\ write_handle = "closed"
             /\ Len(dest_file) = NUM_BYTES_BEFORE_DATA_STARTS
             /\ DestHeader.data_chunk_size
                    = NUM_SAMPLES_DEFAULT * FORMAT_CHUNK_NUM_CHANNELS_EXPECTED
                          * BYTES_PER_SAMPLE_DEFAULT
             /\ ~ENABLED Next

\* A synthesis above the sample rate has failed at its first sample
FrequencyAboveSampleRateWitness ==
    /\ op = "synth"
    /\ wave_form.frequency > make_default.format_chunk_sample_rate
    /\ pc = "failed"
    /\ raised = "ZeroDivisionError"
    /\ wave_sample_period = 0
    /\ Len(dest_file) = NUM_BYTES_BEFORE_DATA_STARTS

\* C18 (an out-of-range transform result is cut down silently): in the
\* transformation of a source of w = 1, 2 or 3 bytes per sample with a
\* trans_func whose every result v has 2^(8w) <= v < 2^26, no call makes the
\* run raise (only a read or a write that fails does, or a payload that
\* ends in a partial sample, once every whole sample was processed); every
\* slot written is w bytes and holds v mod 2^(8w); and the payload of a
\* completed run is as long as the source's.
OutOfRangeTruncated ==
    (Accepted /\ trans_func = "add_above_range" /\ BytesPerSample \in 1..3) =>
        LET w == BytesPerSample IN
        /\ \A i \in 1..Len(calls) :
             /\ calls[i][2] + AboveRange >= Pow(256, w)
             /\ calls[i][2] + AboveRange < Pow(2, 26)
        /\ raised \notin {"none"} \cup IOFaults =>
             /\ raised = "struct.error"
             /\ Len(SrcPayload) % w # 0
             /\ Len(calls) = Len(SrcPayload) \div w
        /\ pc # "opened" =>
             /\ Len(DestPayload) % w = 0
             /\ Len(DestPayload) <= Len(SrcPayload)
             /\ dest_file = meta_data_bytes
                    \o ExpectedOutput(Slice(SrcPayload, 0, Len(DestPayload)),
                                      w, meta_data.format_chunk_num_channels,
                                      trans_func)
        /\ pc = "done" => Len(DestPayload) = Len(SrcPayload)

\* A 2-byte source of several blocks was transformed to the end, and no
\* sample is what it was
OutOfRangeTruncatedWitness ==
    /\ op = "transform"
    /\ trans_func = "add_above_range"
    /\ BytesPerSample = 2
    /\ pc = "done"
    /\ reads >= 3
    /\ Len(DestPayload) = Len(SrcPayload)
    /\ \A i \in 1..Len(DestPayload) : DestPayload[i] # SrcPayload[i]

=============================================================================
